---- MODULE Spec2Model ----
(***************************************************************************)
(* A model of the spreadsheet export engine of src/app.py                  *)
(* (apply_cells_and_export and its helpers).                               *)
(*                                                                         *)
(* Text is a sequence of one-character strings.  Lengths are in            *)
(* characters, column widths in hundredths of a character, row heights in  *)
(* hundredths of a point.  A worksheet is the dictionary of its existing   *)
(* cells, the list of its merged ranges and its dimensions, as openpyxl    *)
(* keeps them.                                                             *)
(***************************************************************************)
EXTENDS Integers, Sequences, FiniteSets, TLC

VARIABLES template, config, heap, req, pc, wb, loc, last, result

vars == <<template, config, heap, req, pc, wb, loc, last, result>>

-----------------------------------------------------------------------------
(* Bounds of the model *)

\* the number of export requests that may be in flight
NumProcs == 2
\* the longest list of edits of one request
MaxEdits == 2
\* the longest edit value drawn from the whole alphabet
MaxStrLen == 3

Procs == 1..NumProcs

-----------------------------------------------------------------------------
(* Text *)

Digits == {"0", "1", "2", "3", "4", "5", "6", "7", "8", "9"}
DigitSeq == <<"0", "1", "2", "3", "4", "5", "6", "7", "8", "9">>
UpperSeq == <<"A", "B", "C", "D", "E", "F", "G", "H", "I", "J", "K", "L", "M",
              "N", "O", "P", "Q", "R", "S", "T", "U", "V", "W", "X", "Y", "Z">>
LowerSeq == <<"a", "b", "c", "d", "e", "f", "g", "h", "i", "j", "k", "l", "m",
              "n", "o", "p", "q", "r", "s", "t", "u", "v", "w", "x", "y", "z">>
Range(s) == {s[i] : i \in DOMAIN s}
Whitespace == {" ", "\n", "\t"}

Max(S) == CHOOSE x \in S : \A y \in S : y <= x
Min(S) == CHOOSE x \in S : \A y \in S : x <= y
MaxOf(a, b) == IF a >= b THEN a ELSE b

\* str.isalnum of one character
IsAlnum(ch) == ch \in Digits \cup Range(UpperSeq) \cup Range(LowerSeq)

\* str.lower of one character
ToLower(ch) ==
    IF ch \in Range(UpperSeq)
    THEN LowerSeq[CHOOSE i \in DOMAIN UpperSeq : UpperSeq[i] = ch]
    ELSE ch

\* str.strip
RECURSIVE LStrip(_)
LStrip(s) == IF s # <<>> /\ Head(s) \in Whitespace THEN LStrip(Tail(s)) ELSE s
RECURSIVE RStrip(_)
RStrip(s) ==
    IF s # <<>> /\ s[Len(s)] \in Whitespace
    THEN RStrip(SubSeq(s, 1, Len(s) - 1))
    ELSE s
Strip(s) == RStrip(LStrip(s))

\* str.isdigit
IsDigit(s) == s # <<>> /\ \A i \in DOMAIN s : s[i] \in Digits

DigitValue(ch) == (CHOOSE i \in DOMAIN DigitSeq : DigitSeq[i] = ch) - 1

\* the number a string of decimal digits denotes
RECURSIVE DecimalValue(_)
DecimalValue(s) ==
    IF s = <<>> THEN 0
    ELSE 10 * DecimalValue(SubSeq(s, 1, Len(s) - 1)) + DigitValue(s[Len(s)])

\* str of a natural number
RECURSIVE NatToStr(_)
NatToStr(n) ==
    IF n < 10 THEN <<DigitSeq[n + 1]>>
    ELSE NatToStr(n \div 10) \o <<DigitSeq[(n % 10) + 1]>>

RECURSIVE Pow10(_)
Pow10(k) == IF k = 0 THEN 1 ELSE 10 * Pow10(k - 1)

\* str.splitlines: a line ends at a line break; a final line break opens no
\* further line
RECURSIVE SplitFrom(_, _, _)
SplitFrom(s, cur, out) ==
    IF s = <<>> THEN (IF cur = <<>> THEN out ELSE Append(out, cur))
    ELSE IF Head(s) = "\n" THEN SplitFrom(Tail(s), <<>>, Append(out, cur))
    ELSE SplitFrom(Tail(s), Append(cur, Head(s)), out)
SplitLines(s) == SplitFrom(s, <<>>, <<>>)

\* sep.join(parts)
RECURSIVE Join(_, _)
Join(sep, parts) ==
    IF parts = <<>> THEN <<>>
    ELSE IF Len(parts) = 1 THEN parts[1]
    ELSE parts[1] \o sep \o Join(sep, Tail(parts))

CeilDiv(a, b) == (a + b - 1) \div b

-----------------------------------------------------------------------------
(* Values of cells and of JSON fields *)

Val(t, n, e, neg, s) == [t |-> t, n |-> n, e |-> e, neg |-> neg, s |-> s]
NoneV == Val("none", 0, 0, FALSE, <<>>)
VStr(s) == Val("str", 0, 0, FALSE, s)
VInt(n) == Val("int", n, 0, FALSE, <<>>)
\* the float (-1)^neg * n / 10^e, with e the least scale that writes it
VFlt(n, e, neg) == Val("float", n, e, neg, <<>>)
\* a JSON value no cell can hold (a list, an object)
BadV == Val("bad", 0, 0, FALSE, <<>>)

RECURSIVE NormFloat(_, _, _)
NormFloat(n, e, neg) ==
    IF e > 0 /\ n % 10 = 0 THEN NormFloat(n \div 10, e - 1, neg)
    ELSE VFlt(n, e, neg)

\* the strings float() accepts, within the characters the model draws from:
\* an optional sign, digits with at most one point, at least one digit
HasSign(s) == s # <<>> /\ Head(s) \in {"-", "+"}
Unsigned(s) == IF HasSign(s) THEN Tail(s) ELSE s
PointAt(s) == {i \in DOMAIN s : s[i] = "."}
IsDecimal(s) ==
    /\ \A i \in DOMAIN s : s[i] \in Digits \cup {"."}
    /\ Cardinality(PointAt(s)) <= 1
    /\ \E i \in DOMAIN s : s[i] \in Digits
ParsesAsFloat(s) == IsDecimal(Unsigned(Strip(s)))

\* float(s) of a string ParsesAsFloat accepts
FloatValue(s) ==
    LET u == Unsigned(Strip(s))
        neg == HasSign(Strip(s)) /\ Head(Strip(s)) = "-"
        digs == SelectSeq(u, LAMBDA ch : ch \in Digits)
        scale == IF PointAt(u) = {} THEN 0
                 ELSE Len(u) - (CHOOSE i \in PointAt(u) : TRUE)
    IN NormFloat(DecimalValue(digs), scale, neg)

\* the strings int() accepts: an optional sign and digits, blanks around
ParsesAsInt(s) == IsDigit(Unsigned(Strip(s)))
IntValue(s) ==
    LET v == DecimalValue(Unsigned(Strip(s)))
    IN IF HasSign(Strip(s)) /\ Head(Strip(s)) = "-" THEN 0 - v ELSE v

\* str(v) of a cell value
StrOf(v) ==
    CASE v.t = "str" -> v.s
      [] v.t = "int" -> IF v.n < 0 THEN <<"-">> \o NatToStr(0 - v.n) ELSE NatToStr(v.n)
      [] v.t = "float" ->
            LET p == Pow10(v.e)
                frac == NatToStr(p + (v.n % p))
            IN (IF v.neg THEN <<"-">> ELSE <<>>) \o NatToStr(v.n \div p) \o <<".">>
               \o (IF v.e = 0 THEN <<"0">> ELSE Tail(frac))
      [] OTHER -> <<"N", "o", "n", "e">>

\* v in (None, "")
IsBlank(v) == v.t = "none" \/ (v.t = "str" /\ v.s = <<>>)

-----------------------------------------------------------------------------
(* Literals of app.py *)

KEYNOTES_LABEL == <<"K", "e", "y", " ", "N", "o", "t", "e", "s", "/", "F", "o", "l", "l", "o", "w", " ", "U", "p">>
UPSTAIRS_LABEL == <<"U", "p", "s", "t", "a", "i", "r", "s">>
GOOD_MORNING == <<"G", "o", "o", "d", " ", "m", "o", "r", "n", "i", "n", "g", " ", "t", "e", "a", "m", ".">>
LAST_NIGHT_PRE == <<"L", "a", "s", "t", " ", "n", "i", "g", "h", "t", " ", "w", "e", " ", "t", "o", "o", "k", " ", "a", " ">>
LAST_NIGHT_MID == <<",", " ", "i", "t", " ", "w", "a", "s", " ", "h", "e", "a", "v", "y", " ", "i", "n", " ">>
TONIGHT_PRE == <<"T", "o", "n", "i", "g", "h", "t", " ", "w", "e", " ", "w", "i", "l", "l", " ", "b", "e", " ", "t", "a", "k", "i", "n", "g", " ", "a", " ">>
TONIGHT_MID == <<",", " ", "i", "t", " ", "w", "i", "l", "l", " ", "b", "e", " ", "h", "e", "a", "v", "y", " ", "i", "n", " ">>
CLOSING == <<"P", "l", "e", "a", "s", "e", " ", "l", "e", "t", " ", "m", "e", " ", "k", "n", "o", "w", " ", "i", "f", " ", "y", "o", "u", " ", "h", "a", "v", "e", " ", "a", "n", "y", " ", "q", "u", "e", "s", "t", "i", "o", "n", "s", ".", " ", "T", "h", "a", "n", "k", " ", "y", "o", "u", ".">>
\* find_keynotes_row(ws, fallback=41)
FALLBACK_ROW == 41
\* the Notes block spans columns 1..5
NOTES_END_COL == 5
\* a banner row spans at least columns 1..5
BANNER_MIN_COL == 5

-----------------------------------------------------------------------------
(* Worksheets *)

\* a cell nothing was written to; a MergedCell has no value of its own
DefaultCell ==
    [v |-> NoneV, merged |-> FALSE, h |-> "none", va |-> "none",
     wrap |-> FALSE, black |-> FALSE]
MergedCell == [DefaultCell EXCEPT !.merged = TRUE]

Keys(ws) == DOMAIN ws.cells
max_row(ws) == IF Keys(ws) = {} THEN 1 ELSE Max({k[1] : k \in Keys(ws)})
max_column(ws) == IF Keys(ws) = {} THEN 1 ELSE Max({k[2] : k \in Keys(ws)})

\* the cell ws.cell(r, c) returns
CellAt(ws, r, c) ==
    IF <<r, c>> \in Keys(ws) THEN ws.cells[<<r, c>>] ELSE DefaultCell

\* ws.cell(r, c) creates the cells it is asked for
Touch(ws, K) ==
    [ws EXCEPT !.cells =
        [k \in Keys(ws) \cup K |-> IF k \in Keys(ws) THEN ws.cells[k] ELSE DefaultCell]]

SetCell(ws, r, c, cell) ==
    [ws EXCEPT !.cells =
        [k \in Keys(ws) \cup {<<r, c>>} |-> IF k = <<r, c>> THEN cell ELSE ws.cells[k]]]

Box(R, C) == (1..R) \X (1..C)
RangeCells(m) == (m[1]..m[3]) \X (m[2]..m[4])
Shadows(m) == RangeCells(m) \ {<<m[1], m[2]>>}
InRange(r, c, m) == m[1] <= r /\ r <= m[3] /\ m[2] <= c /\ c <= m[4]
SubRange(a, b) == b[1] <= a[1] /\ a[3] <= b[3] /\ b[2] <= a[2] /\ a[4] <= b[4]

\* the cells of a merged range but its first become MergedCells
clean_merge_range(ws, m) ==
    [ws EXCEPT !.cells =
        [k \in Keys(ws) \cup RangeCells(m) |->
            IF k \in Shadows(m) THEN MergedCell
            ELSE IF k \in Keys(ws) THEN ws.cells[k] ELSE DefaultCell]]

\* ws.merge_cells: the range joins the list unless a listed range holds it
merge_cells(ws, m) ==
    clean_merge_range(
        IF \E i \in DOMAIN ws.merges : SubRange(m, ws.merges[i])
        THEN ws
        ELSE [ws EXCEPT !.merges = Append(@, m)],
        m)

\* ws.unmerge_cells: the range leaves the list, its MergedCells are deleted
unmerge_cells(ws, m) ==
    [ws EXCEPT !.merges = SelectSeq(@, LAMBDA x : x # m),
               !.cells = [k \in Keys(ws) \ Shadows(m) |-> ws.cells[k]]]

\* load_workbook: the file's cells and ranges, each range bound to its cells
RECURSIVE BindMerges(_, _)
BindMerges(ws, ms) ==
    IF ms = <<>> THEN ws
    ELSE BindMerges(clean_merge_range(ws, Head(ms)), Tail(ms))
load_workbook(file) == BindMerges(file, file.merges)

\* ws.insert_rows(idx, amount): the cells from row idx on move down; the
\* row dimensions stay
insert_rows(ws, idx, amount) ==
    LET moved(k) == IF k[1] >= idx THEN <<k[1] + amount, k[2]>> ELSE k
        back(k) == IF k[1] >= idx + amount THEN <<k[1] - amount, k[2]>> ELSE k
    IN [ws EXCEPT !.cells = [k \in {moved(j) : j \in Keys(ws)} |-> ws.cells[back(k)]]]

-----------------------------------------------------------------------------
(* Helpers of app.py *)

_px_to_pt(px) == px * 75

_col_char_width(ws, col_index) ==
    IF col_index \in DOMAIN ws.colWidth /\ ws.colWidth[col_index] # 0
    THEN ws.colWidth[col_index]
    ELSE ws.defaultColWidth

RECURSIVE SumLines(_, _)
SumLines(parts, chars_per_line) ==
    IF parts = <<>> THEN 0
    ELSE MaxOf(1, CeilDiv(Len(Head(parts)), chars_per_line))
         + SumLines(Tail(parts), chars_per_line)

\* the estimate that counts only the full lines
_estimate_full_lines(text, chars_per_line) ==
    LET parts == IF SplitLines(text) = <<>> THEN << <<>> >> ELSE SplitLines(text)
    IN MaxOf(1, Len(parts))

_estimate_needed_lines(text, chars_per_line) ==
    LET cpl == IF chars_per_line <= 0 THEN 1 ELSE chars_per_line
        parts == IF SplitLines(text) = <<>> THEN << <<>> >> ELSE SplitLines(text)
    IN MaxOf(1, SumLines(parts, cpl))

\* the bounding box is visited, which creates its cells
_last_used_bounds(ws) ==
    LET used == {k \in Keys(ws) : ~IsBlank(ws.cells[k].v)}
        last_r == IF used = {} THEN 0 ELSE Max({k[1] : k \in used})
        last_c == IF used = {} THEN 0 ELSE Max({k[2] : k \in used})
    IN [ws |-> Touch(ws, Box(max_row(ws), max_column(ws))),
        last_r |-> last_r, last_c |-> MaxOf(last_c, 1)]

_uniform_row_height_pt(ws, cfg) ==
    IF cfg.uniformPx # 0 THEN _px_to_pt(cfg.uniformPx)
    ELSE IF 1 \in DOMAIN ws.rowHeight /\ ws.rowHeight[1] # 0 THEN ws.rowHeight[1]
    ELSE IF ws.defaultRowHeight # 0 THEN ws.defaultRowHeight
    ELSE 1500

(* Merge utilities *)

snapshot_merges(ws) == ws.merges

RECURSIVE UnmergeEach(_, _)
UnmergeEach(ws, ms) ==
    IF ms = <<>> THEN ws ELSE UnmergeEach(unmerge_cells(ws, Head(ms)), Tail(ms))
unmerge_all(ws) == UnmergeEach(ws, ws.merges)

RECURSIVE reapply_merges(_, _)
reapply_merges(ws, merges) ==
    IF merges = <<>> THEN ws
    ELSE LET m == Head(merges)
         IN reapply_merges(
                IF m[1] <= m[3] /\ m[2] <= m[4] THEN merge_cells(ws, m) ELSE ws,
                Tail(merges))

\* the ranges left where they were
adjust_merges_unshifted(merges, row_offset) == merges

adjust_merges_row_offset(merges, row_offset) ==
    IF row_offset = 0 THEN merges
    ELSE [i \in DOMAIN merges |->
            <<merges[i][1] + row_offset, merges[i][2],
              merges[i][3] + row_offset, merges[i][4]>>]

\* the mapping that leaves every coordinate where it is
map_to_anchor_unmapped(r, c, merges_snapshot) == <<r, c>>

map_to_anchor_with_snapshot(r, c, merges_snapshot) ==
    LET hits == {i \in DOMAIN merges_snapshot : InRange(r, c, merges_snapshot[i])}
    IN IF hits = {} THEN <<r, c>>
       ELSE <<merges_snapshot[Min(hits)][1], merges_snapshot[Min(hits)][2]>>

(* Key Notes helpers *)

\* the normalization that keeps the case
_norm_keep_case(s) == SelectSeq(s, IsAlnum)

_norm(s) ==
    LET kept == SelectSeq(s, IsAlnum)
    IN [i \in DOMAIN kept |-> ToLower(kept[i])]

\* the first cell, row by row and column by column, whose text normalizes to
\* target: <<row, col>>, or <<0, 0>> when the scan ends without one
Matches(ws, target, r, c) ==
    LET v == CellAt(ws, r, c).v
    IN v.t # "none" /\ _norm(StrOf(v)) = target

RECURSIVE ScanFrom(_, _, _, _, _)
ScanFrom(ws, target, r, R, C) ==
    IF r > R THEN <<0, 0>>
    ELSE LET cols == {c \in 1..C : Matches(ws, target, r, c)}
         IN IF cols # {} THEN <<r, Min(cols)>>
            ELSE ScanFrom(ws, target, r + 1, R, C)
Scan(ws, target) == ScanFrom(ws, target, 1, max_row(ws), max_column(ws))

\* the cells a scan visited, which it created
Scanned(ws, hit) ==
    IF hit = <<0, 0>> THEN Box(max_row(ws), max_column(ws))
    ELSE {k \in Box(hit[1], max_column(ws)) : k[1] < hit[1] \/ k[2] <= hit[2]}

find_keynotes_row(ws, fallback) ==
    LET hit == Scan(ws, _norm(KEYNOTES_LABEL))
    IN IF hit = <<0, 0>> THEN fallback ELSE hit[1]

\* 0 stands for None
find_upstairs_row(ws) == Scan(ws, _norm(UPSTAIRS_LABEL))[1]

NoteLine(ws, r, start_col, end_col) ==
    LET cols == [i \in 1..(end_col - start_col + 1) |-> start_col + i - 1]
        vals == [i \in DOMAIN cols |-> CellAt(ws, r, cols[i]).v]
        kept == SelectSeq(vals, LAMBDA v : ~IsBlank(v))
    IN Strip(Join(<<" ">>, [i \in DOMAIN kept |-> StrOf(kept[i])]))

RECURSIVE DropBlankTail(_)
DropBlankTail(lines) ==
    IF lines # <<>> /\ lines[Len(lines)] = <<>>
    THEN DropBlankTail(SubSeq(lines, 1, Len(lines) - 1))
    ELSE lines

collect_existing_note_lines(ws, hdr_row, start_col, end_col, rows_below) ==
    LET lines == [i \in 1..rows_below |-> NoteLine(ws, hdr_row + i, start_col, end_col)]
    IN Strip(Join(<<"\n">>, DropBlankTail(lines)))

Overlaps(m, lower, upper) == m[1] <= upper /\ m[3] >= lower

\* the three merges made over whatever is merged there
shape_notes_over_merges(ws, hdr_row, start_col, end_col) ==
    merge_cells(
        merge_cells(
            merge_cells(ws, <<hdr_row + 1, start_col, hdr_row + 4, end_col>>),
            <<hdr_row + 5, start_col, hdr_row + 5, end_col>>),
        <<hdr_row + 6, start_col, hdr_row + 6, end_col>>)

shape_notes_exact(ws, hdr_row, start_col, end_col) ==
    LET over == SelectSeq(ws.merges, LAMBDA m : Overlaps(m, hdr_row + 1, hdr_row + 6))
        bare == UnmergeEach(ws, over)
        b1 == merge_cells(bare, <<hdr_row + 1, start_col, hdr_row + 4, end_col>>)
        b2 == merge_cells(b1, <<hdr_row + 5, start_col, hdr_row + 5, end_col>>)
    IN merge_cells(b2, <<hdr_row + 6, start_col, hdr_row + 6, end_col>>)

color_upstairs_black(ws, end_col) ==
    LET up_hit == Scan(ws, _norm(UPSTAIRS_LABEL))
        ws1 == Touch(ws, Scanned(ws, up_hit))
        key_hit == Scan(ws1, _norm(KEYNOTES_LABEL))
        ws2 == Touch(ws1, Scanned(ws1, key_hit))
        start_row == up_hit[1] + 1
        end_row == find_keynotes_row(ws1, FALLBACK_ROW) - 1
        area == (start_row..end_row) \X (1..end_col)
    IN IF up_hit = <<0, 0>> THEN ws1
       ELSE IF end_row < start_row THEN ws2
       ELSE [ws2 EXCEPT !.cells =
                [k \in Keys(ws2) \cup area |->
                    IF k \in area
                    THEN (IF CellAt(ws2, k[1], k[2]).merged THEN ws2.cells[k]
                          ELSE [CellAt(ws2, k[1], k[2]) EXCEPT !.black = TRUE])
                    ELSE ws2.cells[k]]]


-----------------------------------------------------------------------------
(* The steps of apply_cells_and_export *)

\* int(x or 0) of a JSON field: an empty or missing field counts 0
IntOk(x) ==
    \/ x.t \in {"none", "int", "float"}
    \/ x.t = "str" /\ (x.s = <<>> \/ ParsesAsInt(x.s))
IntOf(x) ==
    CASE x.t = "int" -> x.n
      [] x.t = "float" -> IF x.neg THEN 0 - (x.n \div Pow10(x.e)) ELSE x.n \div Pow10(x.e)
      [] x.t = "str" /\ x.s # <<>> -> IntValue(x.s)
      [] OTHER -> 0

\* the value written as it came, blanks aside
coerce_keep_text(v, allow_blank) ==
    IF v.t = "str" /\ Strip(v.s) = <<>>
    THEN [skip |-> ~allow_blank, val |-> VStr(<<>>)]
    ELSE [skip |-> FALSE, val |-> v]

\* the value an edit's v becomes; skip when a blank may not overwrite
coerce(v, allow_blank) ==
    IF v.t # "str" THEN [skip |-> FALSE, val |-> v]
    ELSE LET s == Strip(v.s)
         IN IF s = <<>> THEN [skip |-> ~allow_blank, val |-> VStr(<<>>)]
            ELSE IF IsDigit(s) THEN [skip |-> FALSE, val |-> VInt(DecimalValue(s))]
            ELSE IF ParsesAsFloat(s) THEN [skip |-> FALSE, val |-> FloatValue(s)]
            ELSE [skip |-> FALSE, val |-> v]

Outcome(kind, ws, r, c, t, val, prev) ==
    [kind |-> kind, ws |-> ws, r |-> r, c |-> c, tr |-> t[1], tc |-> t[2],
     val |-> val, prev |-> prev]

\* one turn of the loop over the edits
edit_step(ws, original_merges, cell, cfg) ==
    IF ~IntOk(cell.r) \/ ~IntOk(cell.c)
    THEN Outcome("raise", ws, 0, 0, <<0, 0>>, NoneV, NoneV)
    ELSE LET r == IntOf(cell.r)
             c == IntOf(cell.c)
             t == map_to_anchor_with_snapshot(r, c, original_merges)
             co == coerce(cell.v, cfg.allowBlank)
             prev == CellAt(ws, t[1], t[2]).v
         IN IF r <= 0 \/ c <= 0
            THEN Outcome("ignore", ws, r, c, <<0, 0>>, NoneV, NoneV)
            ELSE IF co.skip
            THEN Outcome("blank", ws, r, c, t, NoneV, prev)
            ELSE IF co.val.t = "bad"
            THEN Outcome("raise", ws, r, c, t, co.val, prev)
            ELSE Outcome("write",
                         IF co.val.t = "none" THEN Touch(ws, {t})
                         ELSE SetCell(ws, t[1], t[2],
                                      [CellAt(ws, t[1], t[2]) EXCEPT !.v = co.val]),
                         r, c, t, co.val, prev)

\* the sentences built from the fields as they came
top_lines_untrimmed(bn) ==
    <<GOOD_MORNING,
      LAST_NIGHT_PRE \o bn.lastNightItem \o LAST_NIGHT_MID \o bn.lastNightHeavy \o <<".">> >>

top_lines(bn) ==
    <<GOOD_MORNING,
      LAST_NIGHT_PRE \o Strip(bn.lastNightItem) \o LAST_NIGHT_MID
        \o Strip(bn.lastNightHeavy) \o <<".">> >>

bottom_lines(bn) ==
    <<TONIGHT_PRE \o Strip(bn.tonightItem) \o TONIGHT_MID
        \o Strip(bn.tonightHeavy) \o <<".">>,
      CLOSING>>

\* Alignment(horizontal, vertical, wrap_text) replaces a cell's alignment
Aligned(cell, h, va, wrap) == [cell EXCEPT !.h = h, !.va = va, !.wrap = wrap]

RECURSIVE BannerRows(_, _, _, _)
BannerRows(ws, lines, i, end_c) ==
    IF i > Len(lines) THEN ws
    ELSE IF Strip(lines[i]) = <<>> THEN BannerRows(ws, lines, i + 1, end_c)
    ELSE LET m == merge_cells(ws, <<i, 1, i, end_c>>)
             w == SetCell(m, i, 1,
                    Aligned([CellAt(m, i, 1) EXCEPT !.v = VStr(lines[i])],
                            "none", "center", TRUE))
         IN BannerRows(w, lines, i + 1, end_c)

banner_step(ws, bn) ==
    LET top_count == Len(SelectSeq(top_lines(bn), LAMBDA x : Strip(x) # <<>>))
        ins == _last_used_bounds(insert_rows(ws, 1, top_count))
    IN [top_count |-> top_count,
        ws |-> IF top_count = 0 THEN ws
               ELSE BannerRows(ins.ws, top_lines(bn), 1, MaxOf(ins.last_c, BANNER_MIN_COL))]

reapply_step(ws, original_merges, top_count) ==
    reapply_merges(ws, adjust_merges_row_offset(original_merges, top_count))

notes_step(ws, bn) ==
    LET hit == Scan(ws, _norm(KEYNOTES_LABEL))
        hdr_row == find_keynotes_row(ws, FALLBACK_ROW)
        seen == Touch(Touch(ws, Scanned(ws, hit)),
                      ((hdr_row + 1)..(hdr_row + 4)) \X (1..NOTES_END_COL))
        collected == collect_existing_note_lines(seen, hdr_row, 1, NOTES_END_COL, 4)
        shaped == shape_notes_exact(seen, hdr_row, 1, NOTES_END_COL)
        given == IF bn.notes # <<>> THEN bn.notes
                 ELSE IF bn.keyNotes # <<>> THEN bn.keyNotes
                 ELSE bn.keynotes
        notes_text == IF Strip(given) = <<>> THEN collected ELSE Strip(given)
        w1 == SetCell(shaped, hdr_row + 1, 1,
                Aligned([CellAt(shaped, hdr_row + 1, 1) EXCEPT !.v = VStr(notes_text)],
                        "center", "center", TRUE))
        w2 == SetCell(w1, hdr_row + 5, 1,
                Aligned([CellAt(w1, hdr_row + 5, 1) EXCEPT !.v = VStr(bottom_lines(bn)[1])],
                        "none", "center", TRUE))
        w3 == SetCell(w2, hdr_row + 6, 1,
                Aligned([CellAt(w2, hdr_row + 6, 1) EXCEPT !.v = VStr(bottom_lines(bn)[2])],
                        "none", "center", TRUE))
    IN [ws |-> w3, hdr_row |-> hdr_row, notes_text |-> notes_text]

\* round() of a number of hundredths: to the nearest, a half to the even
RoundHundredths(x) ==
    LET q == x \div 100
        r == x % 100
    IN IF r < 50 THEN q
       ELSE IF r > 50 THEN q + 1
       ELSE IF q % 2 = 0 THEN q ELSE q + 1

RECURSIVE SumWidths(_, _, _)
SumWidths(ws, from, to) ==
    IF from > to THEN 0
    ELSE _col_char_width(ws, from) + SumWidths(ws, from + 1, to)

\* the lines the autosizer estimates for the cell at (rr, cc); a MergedCell
\* and an empty cell count for none
chars_capacity(ws, rr, cc) ==
    LET own == {i \in DOMAIN ws.merges : ws.merges[i][1] = rr /\ ws.merges[i][2] = cc}
        span == IF own = {} THEN 1
                ELSE ws.merges[Min(own)][4] - ws.merges[Min(own)][2] + 1
    IN MaxOf(1, RoundHundredths(SumWidths(ws, cc, cc + span - 1)))

NeededLines(ws, rr, cc) ==
    LET cell == CellAt(ws, rr, cc)
    IN IF cell.merged \/ cell.v.t = "none" \/ StrOf(cell.v) = <<>> THEN 0
       ELSE _estimate_needed_lines(StrOf(cell.v), chars_capacity(ws, rr, cc))

RowLines(ws, rr, C) == Max({1} \cup {NeededLines(ws, rr, cc) : cc \in 1..C})

RowHeight(base_pt, max_lines) == MaxOf(base_pt, base_pt * max_lines)

autosize_step(ws, cfg) ==
    LET base_pt == _uniform_row_height_pt(ws, cfg)
        R == max_row(ws)
        C == max_column(ws)
        all == Touch(ws, Box(R, C))
    IN [base_pt |-> base_pt,
        ws |-> [all EXCEPT
                  !.cells = [k \in Keys(all) |->
                                IF k \in Box(R, C) /\ NeededLines(ws, k[1], k[2]) > 1
                                THEN Aligned(all.cells[k], "none", "none", TRUE)
                                ELSE all.cells[k]],
                  !.rowHeight = [rr \in (DOMAIN ws.rowHeight) \cup (1..R) |->
                                    IF rr \in 1..R
                                    THEN RowHeight(base_pt, RowLines(ws, rr, C))
                                    ELSE ws.rowHeight[rr]],
                  !.defaultRowHeight = base_pt]]


-----------------------------------------------------------------------------
(* Template files, configurations and requests the model draws from *)

\* the cells of a file: a set of <<row, column, value>>
FileCells(S) ==
    [k \in {<<x[1], x[2]>> : x \in S} |->
        [DefaultCell EXCEPT !.v = (CHOOSE x \in S : x[1] = k[1] /\ x[2] = k[2])[3]]]

EmptyFn == [x \in {} |-> 0]

\* the header in row 4 under an Upstairs section; the notes area merged as
\* one block of four rows and one of two, and a merge beside it
TemplateA ==
    [cells |-> FileCells({<<1, 1, VStr(<<"R", "p", "t">>)>>,
                          <<2, 1, VStr(UPSTAIRS_LABEL)>>,
                          <<3, 1, VStr(<<"a", "b">>)>>,
                          <<3, 2, VInt(5)>>,
                          <<4, 1, VStr(KEYNOTES_LABEL)>>,
                          <<5, 1, VStr(<<"o", "l", "d">>)>>}),
     merges |-> << <<1, 1, 1, 3>>, <<5, 1, 8, 5>>, <<9, 1, 10, 5>>, <<10, 6, 10, 7>> >>,
     rowHeight |-> EmptyFn,
     colWidth |-> EmptyFn,
     defaultColWidth |-> 843,
     defaultRowHeight |-> 1500]

\* no header: the notes go below the fallback row; a narrow first column, a
\* sixth column in use, a height on row 1
TemplateB ==
    [cells |-> FileCells({<<1, 1, VStr(<<"R", "p", "t">>)>>,
                          <<2, 1, VStr(UPSTAIRS_LABEL)>>,
                          <<3, 1, VStr(<<"a", "b">>)>>,
                          <<3, 6, VInt(7)>>}),
     merges |-> << <<3, 2, 4, 3>> >>,
     rowHeight |-> (1 :> 2000),
     colWidth |-> (1 :> 300),
     defaultColWidth |-> 843,
     defaultRowHeight |-> 1500]

\* the header spelled in capitals with other punctuation, in column 2 of
\* row 18, and two rows of notes below it
TemplateC ==
    [cells |-> FileCells({<<1, 1, VStr(<<"R", "p", "t">>)>>,
                          <<18, 2, VStr(<<"K", "E", "Y", " ", "N", "O", "T", "E", "S", " ", "/", " ", "F", "O", "L", "L", "O", "W", "-", "U", "P">>)>>,
                          <<19, 1, VStr(<<"n", "1">>)>>,
                          <<19, 2, VInt(3)>>,
                          <<20, 1, VStr(<<"n", "2">>)>>}),
     merges |-> << <<2, 1, 2, 2>> >>,
     rowHeight |-> EmptyFn,
     colWidth |-> EmptyFn,
     defaultColWidth |-> 843,
     defaultRowHeight |-> 1500]

Templates == {TemplateA, TemplateB, TemplateC}

\* ALLOW_BLANK_OVERWRITE and UNIFORM_ROW_HEIGHT_PX (0: not set)
Configs == {[allowBlank |-> FALSE, uniformPx |-> 0],
            [allowBlank |-> TRUE, uniformPx |-> 24]}

Edit(r, c, v) == [r |-> r, c |-> c, v |-> v]

EditDigits == Edit(VInt(3), VInt(2), VStr(<<"1", "2">>))
EditShadow == Edit(VStr(<<"1">>), VInt(2), VStr(<<" ", "h", "i">>))
EditRowZero == Edit(VInt(0), VInt(1), VStr(<<"a", "b">>))
EditBadRow == Edit(VStr(<<"x">>), VInt(1), VStr(<<"a", "b">>))
EditBlank == Edit(VInt(6), VInt(3), VStr(<<" ", " ", " ">>))
EditBadValue == Edit(VInt(3), VInt(1), BadV)
EditHeader == Edit(VInt(3), VInt(1), VStr(<<"K", "E", "Y", " ", "N", "O", "T", "E", "S", " ", "/", " ", "F", "O", "L", "L", "O", "W", "-", "U", "P">>))
EditFloat == Edit(VInt(10), VInt(3), VStr(<<"1", ".", "5">>))

Edits ==
    {EditDigits, EditShadow, EditRowZero, EditBadRow, EditBlank, EditBadValue,
     EditHeader, EditFloat}

SeqsUpTo(S, n) == UNION {[1..k -> S] : k \in 0..n}

Banner(a, b, c, d, n, k) ==
    [lastNightItem |-> a, lastNightHeavy |-> b, tonightItem |-> c,
     tonightHeavy |-> d, notes |-> n, keyNotes |-> k, keynotes |-> <<>>]

BannerFull == Banner(<<" ", "p", "a", "l", "l", "e", "t">>, <<"p", "r", "o", "d", "u", "c", "e", " ">>, <<"t", "r", "u", "c", "k">>, <<"d", "a", "i", "r", "y">>, <<>>, <<>>)
BannerLines == Banner(<<>>, <<>>, <<>>, <<>>, <<" ", "a", "\n", "b", "\n", "c">>, <<>>)
BannerKey == Banner(<<>>, <<>>, <<>>, <<>>, <<>>, <<" ", "o", "k", " ">>)

Banners == {BannerFull, BannerLines, BannerKey}

Request(cells, banner) == [cells |-> cells, banner |-> banner]
NoRequest == Request(<<>>, BannerKey)

Requests == {Request(cs, bn) : cs \in SeqsUpTo(Edits, MaxEdits), bn \in Banners}

\* the requests of the concurrent runs
ConcRequests ==
    {Request(cs, bn) :
        cs \in {<<>>, <<EditDigits, EditRowZero>>, <<EditBlank, EditBadRow>>,
                <<EditHeader, EditBadValue>>},
        bn \in {BannerFull, BannerLines}}

\* every string over a few characters, as the value of one edit
Alphabet == {" ", "0", "1", "2", ".", "-", "a"}
CoerceRequests ==
    {Request(<<Edit(r, VInt(2), VStr(s))>>, BannerKey) :
        r \in {VInt(3)}, s \in SeqsUpTo(Alphabet, MaxStrLen)}
    \cup {Request(<<e>>, BannerKey) : e \in {EditRowZero, EditBadRow, EditBadValue}}

-----------------------------------------------------------------------------
(* The export requests as processes over a heap of workbook objects *)

NoWs ==
    [cells |-> EmptyFn, merges |-> <<>>, rowHeight |-> EmptyFn, colWidth |-> EmptyFn,
     defaultColWidth |-> 0, defaultRowHeight |-> 0]

NoLoc ==
    [original_merges |-> <<>>, i |-> 0, top_count |-> 0, hdr_row |-> 0,
     notes_text |-> <<>>, base_pt |-> 0]

NoOutcome == Outcome("none", NoWs, 0, 0, <<0, 0>>, NoneV, NoneV)

\* a workbook object kept from the first load and handed to every later one
open_workbook_cached(h, file) ==
    IF h = <<>> THEN [heap |-> <<load_workbook(file)>>, id |-> 1]
    ELSE [heap |-> h, id |-> 1]

\* load_workbook builds a workbook object of its own from the file
open_workbook(h, file) == [heap |-> Append(h, load_workbook(file)), id |-> Len(h) + 1]

TypeOK ==
    /\ template \in Templates
    /\ config \in Configs
    /\ \A p \in Procs :
        pc[p] \in {"off", "load", "edits", "reapply", "notes", "color", "autosize",
                   "save", "done", "failed"}

InitWith(files, cfgs, rqs, on) ==
    /\ template \in files
    /\ config \in cfgs
    /\ heap = <<>>
    /\ \E f \in [on -> rqs] : req = [p \in Procs |-> IF p \in on THEN f[p] ELSE NoRequest]
    /\ pc = [p \in Procs |-> IF p \in on THEN "load" ELSE "off"]
    /\ wb = [p \in Procs |-> 0]
    /\ loc = [p \in Procs |-> NoLoc]
    /\ last = [p \in Procs |-> NoOutcome]
    /\ result = [p \in Procs |-> [ok |-> FALSE, ws |-> NoWs]]

\* one export at a time
Init == InitWith(Templates, Configs, Requests, {1})
\* exports in flight together
InitConc == InitWith({TemplateA}, {[allowBlank |-> FALSE, uniformPx |-> 0]}, ConcRequests, Procs)
\* one export of one edit, its value drawn from every short string
InitCoerce == InitWith({TemplateA}, Configs, CoerceRequests, {1})

Sheet(p) == heap[wb[p]]

\* lines 244-251: the template is loaded, its merges recorded and removed
Load(p) ==
    /\ pc[p] = "load"
    /\ LET o == open_workbook(heap, template)
           ws == o.heap[o.id]
       IN /\ heap' = [o.heap EXCEPT ![o.id] = unmerge_all(ws)]
          /\ wb' = [wb EXCEPT ![p] = o.id]
          /\ loc' = [loc EXCEPT ![p].original_merges = snapshot_merges(ws), ![p].i = 1]
    /\ pc' = [pc EXCEPT ![p] = "edits"]
    /\ UNCHANGED <<template, config, req, last, result>>

EditPending(p) == pc[p] = "edits" /\ loc[p].i <= Len(req[p].cells)
EditNow(p) == edit_step(Sheet(p), loc[p].original_merges, req[p].cells[loc[p].i], config)

\* lines 255-256, 276: int() or the write raises, and the export with it
EditRaises(p) ==
    /\ EditPending(p)
    /\ EditNow(p).kind = "raise"
    /\ pc' = [pc EXCEPT ![p] = "failed"]
    /\ last' = [last EXCEPT ![p] = [EditNow(p) EXCEPT !.ws = NoWs]]
    /\ UNCHANGED <<template, config, heap, req, wb, loc, result>>

\* lines 258-259 and 264-266: the edit is passed over
EditSkipped(p) ==
    /\ EditPending(p)
    /\ EditNow(p).kind \in {"ignore", "blank"}
    /\ loc' = [loc EXCEPT ![p].i = @ + 1]
    /\ last' = [last EXCEPT ![p] = [EditNow(p) EXCEPT !.ws = NoWs]]
    /\ UNCHANGED <<template, config, heap, req, pc, wb, result>>

\* lines 260-276: the coerced value is written
EditWritten(p) ==
    /\ EditPending(p)
    /\ EditNow(p).kind = "write"
    /\ heap' = [heap EXCEPT ![wb[p]] = EditNow(p).ws]
    /\ loc' = [loc EXCEPT ![p].i = @ + 1]
    /\ last' = [last EXCEPT ![p] = [EditNow(p) EXCEPT !.ws = NoWs]]
    /\ UNCHANGED <<template, config, req, pc, wb, result>>

\* lines 278-303: the banner rows are inserted at the top
InsertBanner(p) ==
    /\ pc[p] = "edits"
    /\ loc[p].i > Len(req[p].cells)
    /\ LET b == banner_step(Sheet(p), req[p].banner)
       IN /\ heap' = [heap EXCEPT ![wb[p]] = b.ws]
          /\ loc' = [loc EXCEPT ![p].top_count = b.top_count]
    /\ pc' = [pc EXCEPT ![p] = "reapply"]
    /\ UNCHANGED <<template, config, req, wb, last, result>>

\* lines 305-306: the recorded merges come back, moved down
Reapply(p) ==
    /\ pc[p] = "reapply"
    /\ heap' = [heap EXCEPT ![wb[p]] =
                  reapply_step(Sheet(p), loc[p].original_merges, loc[p].top_count)]
    /\ pc' = [pc EXCEPT ![p] = "notes"]
    /\ UNCHANGED <<template, config, req, wb, loc, last, result>>

\* lines 308-326: the Notes block is shaped and filled
Notes(p) ==
    /\ pc[p] = "notes"
    /\ LET n == notes_step(Sheet(p), req[p].banner)
       IN /\ heap' = [heap EXCEPT ![wb[p]] = n.ws]
          /\ loc' = [loc EXCEPT ![p].hdr_row = n.hdr_row, ![p].notes_text = n.notes_text]
    /\ pc' = [pc EXCEPT ![p] = "color"]
    /\ UNCHANGED <<template, config, req, wb, last, result>>

\* line 329
ColorUpstairs(p) ==
    /\ pc[p] = "color"
    /\ heap' = [heap EXCEPT ![wb[p]] = color_upstairs_black(Sheet(p), NOTES_END_COL)]
    /\ pc' = [pc EXCEPT ![p] = "autosize"]
    /\ UNCHANGED <<template, config, req, wb, loc, last, result>>

\* lines 331-356
Autosize(p) ==
    /\ pc[p] = "autosize"
    /\ LET a == autosize_step(Sheet(p), config)
       IN /\ heap' = [heap EXCEPT ![wb[p]] = a.ws]
          /\ loc' = [loc EXCEPT ![p].base_pt = a.base_pt]
    /\ pc' = [pc EXCEPT ![p] = "save"]
    /\ UNCHANGED <<template, config, req, wb, last, result>>

\* lines 358-363: the workbook is written to the bytes the call returns
Save(p) ==
    /\ pc[p] = "save"
    /\ result' = [result EXCEPT ![p] = [ok |-> TRUE, ws |-> Sheet(p)]]
    /\ pc' = [pc EXCEPT ![p] = "done"]
    /\ UNCHANGED <<template, config, heap, req, wb, loc, last>>

Next ==
    \E p \in Procs :
        \/ Load(p)
        \/ EditRaises(p)
        \/ EditSkipped(p)
        \/ EditWritten(p)
        \/ InsertBanner(p)
        \/ Reapply(p)
        \/ Notes(p)
        \/ ColorUpstairs(p)
        \/ Autosize(p)
        \/ Save(p)

Spec == Init /\ [][Next]_vars
SpecConc == InitConc /\ [][Next]_vars
SpecCoerce == InitCoerce /\ [][Next]_vars

\* the export of one request, run from the file to its end with nothing else
\* running
RECURSIVE RunEdits(_, _, _, _)
RunEdits(ws, original_merges, cells, cfg) ==
    IF cells = <<>> THEN [ok |-> TRUE, ws |-> ws]
    ELSE LET o == edit_step(ws, original_merges, Head(cells), cfg)
         IN IF o.kind = "raise" THEN [ok |-> FALSE, ws |-> NoWs]
            ELSE RunEdits(o.ws, original_merges, Tail(cells), cfg)

ExportAlone(file, cfg, rq) ==
    LET loaded == load_workbook(file)
        orig == snapshot_merges(loaded)
        e == RunEdits(unmerge_all(loaded), orig, rq.cells, cfg)
        b == banner_step(e.ws, rq.banner)
        n == notes_step(reapply_step(b.ws, orig, b.top_count), rq.banner)
    IN IF ~e.ok THEN e
       ELSE [ok |-> TRUE,
             ws |-> autosize_step(color_upstairs_black(n.ws, NOTES_END_COL), cfg).ws]

-----------------------------------------------------------------------------
(* The claims *)

Done(p) == pc[p] = "done"
Out(p) == result[p].ws
MergeSet(ws) == Range(ws.merges)
Shifted(m, k) == <<m[1] + k, m[2], m[3] + k, m[4]>>
\* the edit the last turn of the loop handled
LastEdit(p) == req[p].cells[loc[p].i - 1]
JustEdited(p) == pc[p] = "edits" /\ last[p].kind \in {"write", "blank"}

\* C1: every edit that is written lands on the top-left cell of the range of
\* the template's merges that holds its coordinate, on the coordinate itself
\* when no range holds it, and never on a shadow cell of a range.
C1_WritesGoToAnchors ==
    \A p \in Procs :
        (pc[p] = "edits" /\ last[p].kind = "write") =>
            LET e == last[p]
                snap == template.merges
            IN /\ e.r > 0 /\ e.c > 0
               /\ \A i \in DOMAIN snap :
                    InRange(e.r, e.c, snap[i]) =>
                        (e.tr = snap[i][1] /\ e.tc = snap[i][2])
               /\ (\A i \in DOMAIN snap : ~InRange(e.r, e.c, snap[i])) =>
                        (e.tr = e.r /\ e.tc = e.c)
               /\ \A i \in DOMAIN snap : <<e.tr, e.tc>> \notin Shadows(snap[i])
               /\ e.val.t # "none" => CellAt(Sheet(p), e.tr, e.tc).v = e.val
               /\ loc[p].original_merges = snap

\* an edit on a shadow coordinate was written to the anchor
C1_Witness ==
    \E p \in Procs :
        /\ pc[p] = "edits" /\ last[p].kind = "write"
        /\ <<last[p].r, last[p].c>> # <<last[p].tr, last[p].tc>>
        /\ CellAt(Sheet(p), last[p].tr, last[p].tc).v = last[p].val

NotesRows(m, h) == Overlaps(m, h + 1, h + 6)
NotesMerges(h) ==
    {<<h + 1, 1, h + 4, NOTES_END_COL>>, <<h + 5, 1, h + 5, NOTES_END_COL>>,
     <<h + 6, 1, h + 6, NOTES_END_COL>>}
BannerMerges(ws, k) == {m \in MergeSet(ws) : m[3] <= k}

\* C2 as stated: every merge of the template is in the exported sheet, moved
\* down by the number of banner rows.
C2_EveryMergeRoundTrips ==
    \A p \in Procs :
        Done(p) =>
            \A i \in DOMAIN template.merges :
                Shifted(template.merges[i], loc[p].top_count) \in MergeSet(Out(p))

\* C2 amended: every merge of the template that, moved down by the number k
\* of banner rows, stays clear of the Notes rows h+1..h+6 is in the exported
\* sheet moved down by k, once; the other merges of the exported sheet are
\* the banner rows' and the three of the Notes block.
C2_MergesOutsideNotesRoundTrip ==
    \A p \in Procs :
        Done(p) =>
            LET k == loc[p].top_count
                h == loc[p].hdr_row
                kept == {Shifted(template.merges[i], k) : i \in DOMAIN template.merges}
            IN /\ \A m \in kept : ~NotesRows(m, h) => m \in MergeSet(Out(p))
               /\ MergeSet(Out(p)) \ (BannerMerges(Out(p), k) \cup NotesMerges(h))
                    = {m \in kept : ~NotesRows(m, h)}
               /\ \A i, j \in DOMAIN Out(p).merges :
                    Out(p).merges[i] = Out(p).merges[j] => i = j

\* a template's merge came back moved down by two rows, another one was lost
\* to the Notes block
C2_Witness ==
    \E p \in Procs :
        /\ Done(p) /\ loc[p].top_count = 2
        /\ \E i, j \in DOMAIN template.merges :
            /\ Shifted(template.merges[i], 2) \in MergeSet(Out(p))
            /\ template.merges[i] \notin MergeSet(Out(p))
            /\ Shifted(template.merges[j], 2) \notin MergeSet(Out(p))

\* C3: in the exported sheet the merges that overlap rows h+1..h+6, h the
\* header row found after the banner rows went in, are the three of the
\* Notes block and no other, in any column.
C3_NotesBlockIsThreeMerges ==
    \A p \in Procs :
        Done(p) =>
            LET h == loc[p].hdr_row
            IN /\ {m \in MergeSet(Out(p)) : NotesRows(m, h)} = NotesMerges(h)
               /\ Cardinality({i \in DOMAIN Out(p).merges :
                                 NotesRows(Out(p).merges[i], h)}) = 3

\* the template had merges of another shape over those rows
C3_Witness ==
    \E p \in Procs :
        /\ Done(p)
        /\ \E i \in DOMAIN template.merges :
            LET m == Shifted(template.merges[i], loc[p].top_count)
            IN NotesRows(m, loc[p].hdr_row) /\ m \notin NotesMerges(loc[p].hdr_row)
                /\ m[2] > NOTES_END_COL

\* C4 as stated: an edit that is malformed, or whose write fails, is passed
\* over and the export goes on: no export ends by an exception.
C4_BadEditNeverAborts ==
    \A p \in Procs : pc[p] # "failed"

\* C5: a blank string leaves the cell as it was when blanks may not
\* overwrite and empties it when they may; a string of digits is written as
\* the integer, one that reads as a float as the float, any other string as
\* it came.
C5_ValueCoercion ==
    \A p \in Procs :
        (JustEdited(p) /\ LastEdit(p).v.t = "str") =>
            LET raw == LastEdit(p).v.s
                s == Strip(raw)
                cell == CellAt(Sheet(p), last[p].tr, last[p].tc).v
                wrote == last[p].kind = "write"
            IN /\ s = <<>> =>
                    IF config.allowBlank THEN wrote /\ cell = VStr(<<>>)
                    ELSE ~wrote /\ cell = last[p].prev
               /\ (s # <<>> /\ \A i \in DOMAIN s : s[i] \in Digits) =>
                    wrote /\ cell.t = "int" /\ cell.n = DecimalValue(s)
               /\ (s # <<>> /\ (\E i \in DOMAIN s : s[i] \notin Digits) /\ ParsesAsFloat(s)) =>
                    wrote /\ cell.t = "float" /\ cell = FloatValue(s)
               /\ (s # <<>> /\ (\E i \in DOMAIN s : s[i] \notin Digits) /\ ~ParsesAsFloat(s)) =>
                    wrote /\ cell = VStr(raw)
               /\ raw = <<"1", "2">> => cell = VInt(12)
               /\ raw = <<"0", "1", "2">> => cell = VInt(12)
               /\ raw = <<" ", "2", " ">> => cell = VInt(2)
               /\ raw = <<"1", ".", "2">> => cell = VFlt(12, 1, FALSE)
               /\ raw = <<"-", "1">> => cell = VFlt(1, 0, TRUE)
               /\ raw = <<"2", ".", "0">> => cell = VFlt(2, 0, FALSE)
               /\ raw = <<"1", "a">> => cell = VStr(<<"1", "a">>)
               /\ raw = <<"a", " ">> => cell = VStr(<<"a", " ">>)
               /\ raw = <<"1", " ", "2">> => cell = VStr(<<"1", " ", "2">>)
               /\ raw = <<"-">> => cell = VStr(<<"-">>)

\* the string "12" was written as the integer 12
C5_Witness ==
    \E p \in Procs :
        /\ JustEdited(p) /\ last[p].kind = "write"
        /\ LastEdit(p).v = VStr(<<"1", "2">>)
        /\ CellAt(Sheet(p), last[p].tr, last[p].tc).v = VInt(12)

\* the cells the edits of a request are written to
Targets(p) ==
    {map_to_anchor_with_snapshot(IntOf(req[p].cells[i].r), IntOf(req[p].cells[i].c),
                                 template.merges) : i \in DOMAIN req[p].cells}
LastUsedColumn(ws) ==
    Max({1} \cup {k[2] : k \in {j \in Keys(ws) : ~IsBlank(ws.cells[j].v)}})

\* C6: two rows are inserted at row 1, each merged over columns 1 to the
\* larger of the last used column and 5; row 1 reads the greeting, row 2 the
\* "last night" sentence, the cells at column 1 of rows h+5 and h+6 the
\* "tonight" sentence and the closing one, the fields trimmed, whatever the
\* edits wrote.
C6_BannerSentences ==
    \A p \in Procs :
        Done(p) =>
            LET bn == req[p].banner
                ws == Out(p)
                h == loc[p].hdr_row
                end_c == MaxOf(LastUsedColumn(ws), 5)
            IN /\ loc[p].top_count = 2
               /\ \A k \in DOMAIN template.cells :
                    (k \notin Targets(p) /\ k[1] + 2 \notin (h + 1)..(h + 6)) =>
                        CellAt(ws, k[1] + 2, k[2]).v = template.cells[k].v
               /\ <<1, 1, 1, end_c>> \in MergeSet(ws)
               /\ <<2, 1, 2, end_c>> \in MergeSet(ws)
               /\ CellAt(ws, 1, 1).v = VStr(<<"G", "o", "o", "d", " ", "m", "o", "r", "n", "i", "n", "g", " ", "t", "e", "a", "m", ".">>)
               /\ CellAt(ws, 2, 1).v =
                    VStr(<<"L", "a", "s", "t", " ", "n", "i", "g", "h", "t", " ", "w", "e", " ", "t", "o", "o", "k", " ", "a", " ">> \o Strip(bn.lastNightItem) \o <<",", " ", "i", "t", " ", "w", "a", "s", " ", "h", "e", "a", "v", "y", " ", "i", "n", " ">>
                         \o Strip(bn.lastNightHeavy) \o <<".">>)
               /\ CellAt(ws, h + 5, 1).v =
                    VStr(<<"T", "o", "n", "i", "g", "h", "t", " ", "w", "e", " ", "w", "i", "l", "l", " ", "b", "e", " ", "t", "a", "k", "i", "n", "g", " ", "a", " ">> \o Strip(bn.tonightItem) \o <<",", " ", "i", "t", " ", "w", "i", "l", "l", " ", "b", "e", " ", "h", "e", "a", "v", "y", " ", "i", "n", " ">>
                         \o Strip(bn.tonightHeavy) \o <<".">>)
               /\ CellAt(ws, h + 6, 1).v = VStr(<<"P", "l", "e", "a", "s", "e", " ", "l", "e", "t", " ", "m", "e", " ", "k", "n", "o", "w", " ", "i", "f", " ", "y", "o", "u", " ", "h", "a", "v", "e", " ", "a", "n", "y", " ", "q", "u", "e", "s", "t", "i", "o", "n", "s", ".", " ", "T", "h", "a", "n", "k", " ", "y", "o", "u", ".">>)
               /\ bn = BannerFull =>
                    /\ CellAt(ws, 2, 1).v = VStr(<<"L", "a", "s", "t", " ", "n", "i", "g", "h", "t", " ", "w", "e", " ", "t", "o", "o", "k", " ", "a", " ", "p", "a", "l", "l", "e", "t", ",", " ", "i", "t", " ", "w", "a", "s", " ", "h", "e", "a", "v", "y", " ", "i", "n", " ", "p", "r", "o", "d", "u", "c", "e", ".">>)
                    /\ CellAt(ws, h + 5, 1).v = VStr(<<"T", "o", "n", "i", "g", "h", "t", " ", "w", "e", " ", "w", "i", "l", "l", " ", "b", "e", " ", "t", "a", "k", "i", "n", "g", " ", "a", " ", "t", "r", "u", "c", "k", ",", " ", "i", "t", " ", "w", "i", "l", "l", " ", "b", "e", " ", "h", "e", "a", "v", "y", " ", "i", "n", " ", "d", "a", "i", "r", "y", ".">>)

\* an edit was written to the cell that then received the "tonight" sentence
C6_Witness ==
    \E p \in Procs :
        /\ Done(p) /\ req[p].banner = BannerFull
        /\ <<loc[p].hdr_row + 5 - 2, 1>> \in Targets(p)
        /\ req[p].cells # <<>>
        /\ req[p].cells[Len(req[p].cells)] = EditFloat
        /\ CellAt(Out(p), loc[p].hdr_row + 5, 1).v = VStr(<<"T", "o", "n", "i", "g", "h", "t", " ", "w", "e", " ", "w", "i", "l", "l", " ", "b", "e", " ", "t", "a", "k", "i", "n", "g", " ", "a", " ", "t", "r", "u", "c", "k", ",", " ", "i", "t", " ", "w", "i", "l", "l", " ", "b", "e", " ", "h", "e", "a", "v", "y", " ", "i", "n", " ", "d", "a", "i", "r", "y", ".">>)

\* C7: with exports in flight together the template file stays as it was,
\* no two exports hold the same workbook object, and the workbook an export
\* returns is the one it returns when it runs alone; an export fails only
\* if it fails alone.
C7_ExportsIsolated ==
    /\ template \in Templates
    /\ \A p, q \in Procs : (p # q /\ wb[p] # 0 /\ wb[q] # 0) => wb[p] # wb[q]
    /\ \A p \in Procs :
        /\ Done(p) => result[p] = ExportAlone(template, config, req[p])
        /\ pc[p] = "failed" => ~ExportAlone(template, config, req[p]).ok

\* two exports of different requests, the second loaded first, both ended
C7_Witness ==
    /\ Done(1) /\ Done(2)
    /\ req[1] # req[2]
    /\ result[1] # result[2]
    /\ wb[1] = 2 /\ wb[2] = 1

\* the least number of lines of width w that hold len characters, one at least
LeastLines(len, w) ==
    CHOOSE n \in 1..(len + 1) : n * w >= len /\ (n = 1 \/ (n - 1) * w < len)
RECURSIVE ExpectedLines(_, _)
ExpectedLines(parts, w) ==
    IF parts = <<>> THEN 0
    ELSE LeastLines(Len(Head(parts)), w) + ExpectedLines(Tail(parts), w)
\* the estimate of the cell at (rr, cc): 0 for a shadow or an empty cell
CellLines(ws, rr, cc) ==
    LET cell == CellAt(ws, rr, cc)
        text == StrOf(cell.v)
        parts == IF SplitLines(text) = <<>> THEN << <<>> >> ELSE SplitLines(text)
    IN IF cell.merged \/ cell.v.t = "none" \/ text = <<>> THEN 0
       ELSE MaxOf(1, ExpectedLines(parts, chars_capacity(ws, rr, cc)))
MaxLines(ws, rr) == Max({1} \cup {CellLines(ws, rr, cc) : cc \in 1..max_column(ws)})
Baseline ==
    IF config.uniformPx # 0 THEN (config.uniformPx * 72 * 100) \div 96
    ELSE IF 1 \in DOMAIN template.rowHeight THEN template.rowHeight[1]
    ELSE template.defaultRowHeight

\* C8: every row of the exported sheet is as high as the baseline times the
\* largest line estimate among its cells, so no lower than the baseline and
\* 45pt for three lines at 15pt; a cell of more than one line wraps; the
\* sheet's default row height is the baseline.
C8_RowHeights ==
    \A p \in Procs :
        Done(p) =>
            LET ws == Out(p)
            IN /\ loc[p].base_pt = Baseline
               /\ \A rr \in 1..max_row(ws) :
                    /\ rr \in DOMAIN ws.rowHeight
                    /\ ws.rowHeight[rr] = MaxOf(Baseline, Baseline * MaxLines(ws, rr))
                    /\ ws.rowHeight[rr] >= Baseline
                    /\ (Baseline = 1500 /\ MaxLines(ws, rr) = 3) => ws.rowHeight[rr] = 4500
               /\ \A k \in Keys(ws) : CellLines(ws, k[1], k[2]) > 1 => ws.cells[k].wrap
               /\ ws.defaultRowHeight = Baseline

\* a row of three lines at a baseline of 15pt is 45pt high
C8_Witness ==
    \E p \in Procs :
        /\ Done(p) /\ Baseline = 1500
        /\ \E rr \in 1..max_row(Out(p)) :
            MaxLines(Out(p), rr) = 3 /\ Out(p).rowHeight[rr] = 4500

\* C9 as stated: in the exported sheet the first cell of the Notes block
\* holds the note text and is centered both ways and wrapped, whatever the
\* note text.
C9_NotesAnchorCentered ==
    \A p \in Procs :
        Done(p) =>
            LET cell == CellAt(Out(p), loc[p].hdr_row + 1, 1)
            IN /\ cell.v = VStr(loc[p].notes_text)
               /\ cell.h = "center" /\ cell.va = "center" /\ cell.wrap

NormalizedLabel ==
    <<"k", "e", "y", "n", "o", "t", "e", "s", "f", "o", "l", "l", "o", "w", "u", "p">>
HeaderRows(ws) ==
    {r \in 1..max_row(ws) :
        \E c \in 1..max_column(ws) :
            /\ CellAt(ws, r, c).v.t # "none"
            /\ _norm(StrOf(CellAt(ws, r, c).v)) = NormalizedLabel}

\* C10: find_keynotes_row gives the first row that holds a cell whose text,
\* lower-cased and rid of all but letters and digits, is that of the label,
\* and 41 when no row does; the header in capitals in row 20 gives 20; no
\* export fails for want of a header.
C10_FindKeynotesRow ==
    \A p \in Procs :
        /\ wb[p] # 0 =>
            find_keynotes_row(Sheet(p), 41) =
                IF HeaderRows(Sheet(p)) = {} THEN 41 ELSE Min(HeaderRows(Sheet(p)))
        /\ _norm(<<"K", "E", "Y", " ", "N", "O", "T", "E", "S", " ", "/", " ", "F", "O", "L", "L", "O", "W", "-", "U", "P">>) = NormalizedLabel
        /\ pc[p] = "notes" =>
            /\ (template = TemplateC /\ EditHeader \notin Range(req[p].cells)) =>
                    find_keynotes_row(Sheet(p), 41) = 20
            /\ (template = TemplateB /\ EditHeader \notin Range(req[p].cells)) =>
                    find_keynotes_row(Sheet(p), 41) = 41
        /\ pc[p] \in {"color", "autosize", "save", "done"} =>
            \/ loc[p].hdr_row \in HeaderRows(Sheet(p))
            \/ loc[p].hdr_row = 41
        /\ pc[p] = "failed" => last[p].kind = "raise"

\* the header in capitals and other punctuation was found in row 20
C10_Witness ==
    \E p \in Procs :
        /\ pc[p] = "color" /\ template = TemplateC
        /\ loc[p].hdr_row = 20
        /\ CellAt(Sheet(p), 20, 2).v = VStr(<<"K", "E", "Y", " ", "N", "O", "T", "E", "S", " ", "/", " ", "F", "O", "L", "L", "O", "W", "-", "U", "P">>)

====
